---- MODULE Spec2Model ----
(***************************************************************************)
(* Model of the RAG server (rag_server.py): the three MCP tools            *)
(* search_note, add_note and delete_note, the Document model they return,  *)
(* and the two collaborators they call (embedding provider, vector store). *)
(*                                                                         *)
(* Every handler is an `async def` whose external calls are blocking, so a *)
(* handler runs to completion before the event loop serves the next one:   *)
(* one action per handler.                                                 *)
(*                                                                         *)
(* Text (content, query, serialized embeddings, identifiers) is a sequence *)
(* of one-character strings.  Similarities are rationals with denominator  *)
(* Unit; parsed floats are rationals with denominator Milli.               *)
(***************************************************************************)
EXTENDS Integers, Sequences, FiniteSets, TLC

\* ---- bounds -------------------------------------------------------------
MaxId == 3          \* rows a table may hold initially have ids 1..MaxId
MaxLimit == 3       \* search limits 1..MaxLimit

\* ---- units --------------------------------------------------------------
Unit == 20          \* similarity s is stored as s * Unit
Milli == 1000       \* an embedding component x is stored as x * Milli

VARIABLES documentsTable, tables, nextId, op, calls, response, outcome,
          deleted

vars == <<documentsTable, tables, nextId, op, calls, response, outcome,
          deleted>>

\* ---- generic helpers ----------------------------------------------------
Min(a, b) == IF a < b THEN a ELSE b

Range(s) == {s[i] : i \in 1..Len(s)}

RECURSIVE Pow10(_)
Pow10(n) == IF n = 0 THEN 1 ELSE 10 * Pow10(n - 1)

\* all orderings of the elements of a finite set
RECURSIVE Perms(_)
Perms(S) ==
    IF S = {} THEN {<<>>}
    ELSE UNION {{<<x>> \o p : p \in Perms(S \ {x})} : x \in S}

Digits == <<"0", "1", "2", "3", "4", "5", "6", "7", "8", "9">>

DigitVal(c) == CHOOSE d \in 0..9 : Digits[d + 1] = c

IsDigit(c) == c \in Range(Digits)

\* Python str(n) of a non-negative integer
RECURSIVE Str(_)
Str(n) == IF n < 10 THEN <<Digits[n + 1]>>
          ELSE Str(n \div 10) \o <<Digits[(n % 10) + 1]>>

\* ---- text of the modelled corpus ----------------------------------------
TextA == <<"a">>
TextB == <<"b">>
TextC == <<"c", "c">>
Empty == <<>>

Texts == {Empty, TextA, TextB}

EmbGood      == <<"[", "0", ".", "1", ",", "0", ".", "2", ",", "0", ".", "3", "]">>
EmbNotVector == <<"n", "o", "t", "-", "a", "-", "v", "e", "c", "t", "o", "r">>
EmbTruncated == <<"[", "0", ".", "1", ",", "0", ".", "2">>
EmbEmptyTok  == <<"[", "0", ".", "1", ",", ",", "2", "]">>
EmbBlank     == <<>>
EmbSpaced    == <<"[", "-", "1", ".", "5", ",", " ", "2", "]">>

\* the embedding column of a row as the store client hands it over:
\* a string, an already decoded list, null, or no such key
EmbeddingForms ==
    << [type |-> "str", val |-> EmbGood],
       [type |-> "str", val |-> EmbNotVector],
       [type |-> "str", val |-> EmbTruncated],
       [type |-> "absent"],
       [type |-> "str", val |-> EmbEmptyTok],
       [type |-> "list", val |-> <<100, 200>>],
       [type |-> "str", val |-> EmbSpaced],
       [type |-> "str", val |-> EmbBlank],
       [type |-> "null"] >>

ContentList == <<TextB, TextC, TextA>>

TableNames == {"notes", "documents"}

TableOffset(t) == IF t = "documents" THEN 0 ELSE 4

\* the row with id i that table t may hold when the server starts
PoolRow(t, i) ==
    LET form == EmbeddingForms[((i - 1 + TableOffset(t)) % Len(EmbeddingForms)) + 1]
        base == [id |-> i,
                 content |-> ContentList[((i - 1) % Len(ContentList)) + 1],
                 metadata |-> [source |-> "file"]]
    IN  IF form.type = "absent" THEN base
        ELSE ("embedding" :> form) @@ base

Pool(t) == {PoolRow(t, i) : i \in 1..MaxId}

\* ---- Document.from_supabase ---------------------------------------------
\* str.strip('[]'): drop every leading and trailing '[' or ']'
RECURSIVE LStrip(_, _)
LStrip(s, chars) ==
    IF s # <<>> /\ Head(s) \in chars THEN LStrip(Tail(s), chars) ELSE s

RECURSIVE RStrip(_, _)
RStrip(s, chars) ==
    IF s # <<>> /\ s[Len(s)] \in chars
    THEN RStrip(SubSeq(s, 1, Len(s) - 1), chars) ELSE s

Strip(s, chars) == RStrip(LStrip(s, chars), chars)

\* str.split(','): always at least one (possibly empty) piece
RECURSIVE SplitFrom(_, _, _)
SplitFrom(s, sep, cur) ==
    IF s = <<>> THEN <<cur>>
    ELSE IF Head(s) = sep THEN <<cur>> \o SplitFrom(Tail(s), sep, <<>>)
    ELSE SplitFrom(Tail(s), sep, Append(cur, Head(s)))

Split(s, sep) == SplitFrom(s, sep, <<>>)

RECURSIVE AllDigits(_)
AllDigits(s) == s = <<>> \/ (IsDigit(Head(s)) /\ AllDigits(Tail(s)))

RECURSIVE DigitsVal(_)
DigitsVal(s) ==
    IF s = <<>> THEN 0
    ELSE DigitsVal(SubSeq(s, 1, Len(s) - 1)) * 10 + DigitVal(s[Len(s)])

\* the unsigned body of a float literal: digits, at most one '.', and at
\* least one digit (exponents, inf, nan and '_' do not occur in the corpus)
Unsigned(tok) ==
    LET t == Strip(tok, {" "})
    IN  IF t # <<>> /\ Head(t) \in {"-", "+"} THEN Tail(t) ELSE t

IsFloatTok(tok) ==
    LET parts == Split(Unsigned(tok), ".")
    IN  /\ Len(parts) \in {1, 2}
        /\ \A i \in 1..Len(parts) : AllDigits(parts[i])
        /\ \E i \in 1..Len(parts) : parts[i] # <<>>

\* float(tok) * Milli for a token IsFloatTok accepts; fraction digits past
\* the third are dropped
FloatOf(tok) ==
    LET t     == Strip(tok, {" "})
        neg   == t # <<>> /\ Head(t) = "-"
        parts == Split(Unsigned(tok), ".")
        frac  == IF Len(parts) = 2 THEN SubSeq(parts[2], 1, Min(3, Len(parts[2])))
                 ELSE <<>>
        mag   == DigitsVal(parts[1]) * Milli + DigitsVal(frac) * Pow10(3 - Len(frac))
    IN  IF neg THEN 0 - mag ELSE mag

None == [type |-> "null"]

\* the parse without strip('[]')
ParseEmbeddingNoStrip(s) ==
    LET toks == Split(s, ",")
    IN  IF \A i \in 1..Len(toks) : IsFloatTok(toks[i])
        THEN [type |-> "list", val |-> [i \in 1..Len(toks) |-> FloatOf(toks[i])]]
        ELSE None

\* lines 126-129: the try block; ValueError from float() gives None
ParseEmbedding(s) ==
    LET toks == Split(Strip(s, {"[", "]"}), ",")
    IN  IF \A i \in 1..Len(toks) : IsFloatTok(toks[i])
        THEN [type |-> "list", val |-> [i \in 1..Len(toks) |-> FloatOf(toks[i])]]
        ELSE None

\* cls(**data): pydantic keeps the declared fields and ignores the others;
\* embedding and metadata default to None
DocumentFields == {"id", "content", "embedding", "metadata"}

Document(data) ==
    [f \in DocumentFields |->
        IF f \in DOMAIN data THEN data[f] ELSE None]

from_supabase(data) ==
    IF "embedding" \in DOMAIN data /\ data["embedding"].type = "str"
    THEN Document([data EXCEPT !["embedding"] = ParseEmbedding(data["embedding"].val)])
    ELSE Document(data)

\* ---- embedding provider -------------------------------------------------
\* embeddings.create: the vector of a text is identified with the text that
\* produced it; the provider fails when it is down or the input is empty
EmbeddingsCreate(model, text, up) ==
    IF up /\ text # Empty
    THEN [ok |-> TRUE, embedding |-> text]
    ELSE [ok |-> FALSE, error |-> "EmbeddingUnavailable"]

\* ---- vector store -------------------------------------------------------
\* cosine similarity of two vectors, times Unit
Cosine(u, v) ==
    IF u = v THEN Unit
    ELSE IF TextA \in {u, v} THEN 16
    ELSE 0 - 10

Candidate(row, query_embedding) ==
    ("similarity" :> Cosine(query_embedding, row.content)) @@ row

\* rpc match_documents: the match_count nearest rows of the documents
\* table, in any order
IsNearest(S, rows, q) ==
    \A r \in S : \A o \in rows \ S : Cosine(q, r.content) >= Cosine(q, o.content)

MatchDocuments(rows, query_embedding, match_count) ==
    LET k == Min(match_count, Cardinality(rows))
        nearest == {S \in SUBSET rows :
                        Cardinality(S) = k /\ IsNearest(S, rows, query_embedding)}
    IN  UNION {{[i \in 1..k |-> Candidate(p[i], query_embedding)] : p \in Perms(S)}
               : S \in nearest}

\* the rows match_documents searches: the configured documents table
MatchedRows == tables[documentsTable]

\* table(t).delete().eq('id', id_str): removes the rows whose id has that
\* text and returns them
StoreDelete(tbls, t, id_str) ==
    LET hit == {r \in tbls[t] : Str(r.id) = id_str}
    IN  [data |-> hit, tables |-> [tbls EXCEPT ![t] = @ \ hit]]

\* table(t).insert(row): the store assigns the next id of the table and
\* returns the created row; a store that creates nothing returns no data
StoreInsert(tbls, ids, t, row, creates) ==
    LET created == ("id" :> ids[t]) @@ row
    IN  IF creates
        THEN [data |-> <<created>>,
              tables |-> [tbls EXCEPT ![t] = @ \cup {created}],
              nextId |-> [ids EXCEPT ![t] = @ + 1]]
        ELSE [data |-> <<>>, tables |-> tbls, nextId |-> ids]

\* ---- Python outcomes and the log of external calls ----------------------
Return(v) == [kind |-> "return", value |-> v]

Raise(e) == [kind |-> "raise", error |-> e]

EmbedCall(ok) == [service |-> "embedding", ok |-> ok]

StoreCall(ok) == [service |-> "store", ok |-> ok]

\* ---- configuration ------------------------------------------------------
OPENAI_MODEL == "text-embedding-3-small"

\* openai_client is the synchronous OpenAI client: what embeddings.create
\* returns is a response object, not an awaitable
OpenAIClientIsAsync == FALSE

\* `await x`: TypeError when x is not awaitable
Await(x) ==
    IF OpenAIClientIsAsync THEN [raised |-> FALSE, value |-> x]
    ELSE [raised |-> TRUE, error |-> "TypeError"]

\* ---- search_note --------------------------------------------------------
\* lines 177-178; .get('similarity', 0).  Raw similarities are even
\* multiples of 1/Unit, so the halving is exact
Similarity(doc) ==
    LET raw      == IF "similarity" \in DOMAIN doc THEN doc["similarity"] ELSE 0
        distance == Unit - raw
    IN  Unit - (distance \div 2)

DocCopy(doc) == ("similarity" :> Similarity(doc)) @@ doc

\* an insertion that puts an element in front of its equals
RECURSIVE InsertDescUnstable(_, _)
InsertDescUnstable(sorted, x) ==
    IF sorted = <<>> THEN <<x>>
    ELSE IF Head(sorted)["similarity"] > x["similarity"]
         THEN <<Head(sorted)>> \o InsertDescUnstable(Tail(sorted), x)
         ELSE <<x>> \o sorted

\* list.sort(key=similarity, reverse=True) is stable: an element goes
\* behind every element whose key is greater or equal
RECURSIVE InsertDesc(_, _)
InsertDesc(sorted, x) ==
    IF sorted = <<>> THEN <<x>>
    ELSE IF Head(sorted)["similarity"] >= x["similarity"]
         THEN <<Head(sorted)>> \o InsertDesc(Tail(sorted), x)
         ELSE <<x>> \o sorted

RECURSIVE SortDesc(_)
SortDesc(s) ==
    IF s = <<>> THEN <<>>
    ELSE InsertDesc(SortDesc(SubSeq(s, 1, Len(s) - 1)), s[Len(s)])

Results(data) == SortDesc([i \in 1..Len(data) |-> DocCopy(data[i])])

\* a search that asks the provider again after a failure
search_documents_retry(query, limit, embedUp, rpc) ==
    LET created == EmbeddingsCreate(OPENAI_MODEL, query, embedUp)
    IN  IF ~created.ok
        THEN [calls |-> <<EmbedCall(FALSE), EmbedCall(FALSE)>>,
              outcome |-> Raise(created.error)]
        ELSE IF ~rpc.ok
        THEN [calls |-> <<EmbedCall(TRUE), StoreCall(FALSE)>>,
              outcome |-> Raise("StoreUnavailable")]
        ELSE [calls |-> <<EmbedCall(TRUE), StoreCall(TRUE)>>,
              outcome |-> Return([i \in 1..Len(rpc.data) |-> from_supabase(rpc.data[i])])]

\* rpc is the answer the store gives if it is asked
search_documents(query, limit, embedUp, rpc) ==
    LET created == EmbeddingsCreate(OPENAI_MODEL, query, embedUp)
    IN  IF ~created.ok
        THEN [calls |-> <<EmbedCall(FALSE)>>, outcome |-> Raise(created.error)]
        ELSE IF ~rpc.ok
        THEN [calls |-> <<EmbedCall(TRUE), StoreCall(FALSE)>>,
              outcome |-> Raise("StoreUnavailable")]
        ELSE LET results == Results(rpc.data)
             IN  [calls |-> <<EmbedCall(TRUE), StoreCall(TRUE)>>,
                  outcome |-> Return([i \in 1..Len(results) |->
                                          from_supabase(results[i])])]

\* ---- add_note -----------------------------------------------------------
Sha256Hex(content) == <<"sha256">> \o content

DefaultMetadata(content, uuid, now) ==
    [loc |-> None, source |-> "from_chat", file_id |-> uuid,
     blobType |-> "text", filename |-> None, path |-> None,
     directory |-> None, file_extension |-> None,
     file_size |-> Len(content), file_hash |-> Sha256Hex(content),
     content_length |-> Len(content), is_truncated |-> FALSE,
     last_modified |-> now, created_at |-> now,
     processing_info |-> [model |-> "text-embedding-3-small",
                          processed_at |-> now,
                          embedding_dimension |-> 1536]]

\* `if metadata:` is false for None and for the empty dict
Truthy(metadata) == metadata.given /\ DOMAIN metadata.map # {}

\* default_metadata.update(metadata)
MergeMetadata(default_metadata, metadata) ==
    IF Truthy(metadata) THEN metadata.map @@ default_metadata
    ELSE default_metadata

\* an add that writes the row before it asks for the embedding
add_note_insert_first(content, metadata, embedUp, storeMode, uuid, now, tbls, ids) ==
    LET result  == StoreInsert(tbls, ids, "notes",
                       [content |-> content, embedding |-> None,
                        metadata |-> DefaultMetadata(content, uuid, now)],
                       storeMode = "up")
        created == EmbeddingsCreate("text-embedding-3-small", content, embedUp)
    IN  [calls |-> <<StoreCall(TRUE), EmbedCall(created.ok)>>,
         outcome |-> IF created.ok THEN Raise("TypeError") ELSE Raise(created.error),
         tables |-> result.tables,
         nextId |-> result.nextId]

add_note(content, metadata, embedUp, storeMode, uuid, now, tbls, ids) ==
    LET created  == EmbeddingsCreate("text-embedding-3-small", content, embedUp)
        same     == [tables |-> tbls, nextId |-> ids]
    IN  IF ~created.ok
        THEN [calls |-> <<EmbedCall(FALSE)>>, outcome |-> Raise(created.error)] @@ same
        ELSE IF Await(created).raised
        THEN [calls |-> <<EmbedCall(TRUE)>>,
              outcome |-> Raise(Await(created).error)] @@ same
        ELSE IF storeMode = "down"
        THEN [calls |-> <<EmbedCall(TRUE), StoreCall(FALSE)>>,
              outcome |-> Raise("StoreUnavailable")] @@ same
        ELSE LET merged == MergeMetadata(DefaultMetadata(content, uuid, now), metadata)
                 result == StoreInsert(tbls, ids, "notes",
                               [content |-> content,
                                embedding |-> [type |-> "list",
                                               val |-> Await(created).value.embedding],
                                metadata |-> merged],
                               storeMode = "up")
             IN  [calls |-> <<EmbedCall(TRUE), StoreCall(TRUE)>>,
                  outcome |-> IF result.data # <<>>
                              THEN Return([id |-> result.data[1].id,
                                           content |-> content,
                                           metadata |-> merged])
                              ELSE Raise("InsertFailed"),
                  tables |-> result.tables,
                  nextId |-> result.nextId]

\* ---- delete_note --------------------------------------------------------
\* str(note_id): an int is printed in decimal, a str is itself
NoteIdStr(note_id) ==
    IF note_id.type = "int" THEN Str(note_id.val) ELSE note_id.val

\* a delete that reports the matching rows without removing them
delete_note_keep(note_id, storeUp, tbls, table) ==
    IF ~storeUp
    THEN [calls |-> <<StoreCall(FALSE)>>, outcome |-> Raise("StoreUnavailable"),
          tables |-> tbls]
    ELSE LET resp == StoreDelete(tbls, table, NoteIdStr(note_id))
         IN  [calls |-> <<StoreCall(TRUE)>>,
              outcome |-> Return(Cardinality(resp.data) > 0),
              tables |-> tbls]

delete_note(note_id, storeUp, tbls, table) ==
    IF ~storeUp
    THEN [calls |-> <<StoreCall(FALSE)>>, outcome |-> Raise("StoreUnavailable"),
          tables |-> tbls]
    ELSE LET resp    == StoreDelete(tbls, table, NoteIdStr(note_id))
             success == Cardinality(resp.data) > 0
         IN  [calls |-> <<StoreCall(TRUE)>>, outcome |-> Return(success),
              tables |-> resp.tables]

\* ---- the requests the model issues --------------------------------------
MetadataArgs ==
    { [given |-> FALSE, map |-> <<>>],
      [given |-> TRUE, map |-> <<>>],
      [given |-> TRUE, map |-> [source |-> "test"]] }

NoteIds ==
    {[type |-> "int", val |-> i] : i \in 1..MaxId + 1}
    \cup {[type |-> "str", val |-> Str(i)] : i \in 1..MaxId + 1}

Uuids == {"uuid-1"}

Clock == {"t0"}

\* ---- state machine ------------------------------------------------------
Init ==
    /\ documentsTable \in TableNames
    /\ tables = [t \in TableNames |-> Pool(t)]
    /\ nextId = [t \in TableNames |-> MaxId + 1]
    /\ op = [name |-> "none"]
    /\ calls = <<>>
    /\ response = <<>>
    /\ outcome = [kind |-> "none"]
    /\ deleted = {}

SearchNote ==
    \E query \in Texts, limit \in 1..MaxLimit, embedUp \in BOOLEAN, storeUp \in BOOLEAN :
      \E data \in MatchDocuments(MatchedRows, query, limit) :
        LET run == search_documents(query, limit, embedUp, [ok |-> storeUp, data |-> data])
        IN  /\ op' = [name |-> "search_note", query |-> query, limit |-> limit,
                      embedUp |-> embedUp, storeUp |-> storeUp]
            /\ calls' = run.calls
            /\ outcome' = run.outcome
            /\ response' = IF StoreCall(TRUE) \in Range(run.calls) THEN data ELSE <<>>
            /\ UNCHANGED <<documentsTable, tables, nextId, deleted>>

AddNote ==
    \E content \in Texts, metadata \in MetadataArgs, embedUp \in BOOLEAN,
       storeMode \in {"up", "down", "norow"}, uuid \in Uuids, now \in Clock :
        LET run == add_note(content, metadata, embedUp, storeMode, uuid, now,
                            tables, nextId)
        IN  /\ op' = [name |-> "add_note", content |-> content, metadata |-> metadata,
                      embedUp |-> embedUp, storeMode |-> storeMode,
                      uuid |-> uuid, now |-> now]
            /\ calls' = run.calls
            /\ outcome' = run.outcome
            /\ tables' = run.tables
            /\ nextId' = run.nextId
            /\ response' = <<>>
            /\ UNCHANGED <<documentsTable, deleted>>

DeleteNote ==
    \E note_id \in NoteIds, storeUp \in BOOLEAN :
        LET run == delete_note(note_id, storeUp, tables, documentsTable)
        IN  /\ op' = [name |-> "delete_note", note_id |-> note_id, storeUp |-> storeUp]
            /\ calls' = run.calls
            /\ outcome' = run.outcome
            /\ tables' = run.tables
            /\ response' = <<>>
            /\ deleted' = IF run.outcome = Return(TRUE)
                          THEN deleted \cup {NoteIdStr(note_id)} ELSE deleted
            /\ UNCHANGED <<documentsTable, nextId>>

Next == SearchNote \/ AddNote \/ DeleteNote

Spec == Init /\ [][Next]_vars

\* ---- properties ---------------------------------------------------------
AllRows(tbls) == UNION {tbls[t] : t \in TableNames}

StoreUnchanged == tables' = tables /\ nextId' = nextId

HealthyAdd(o) ==
    o.name = "add_note" /\ o.content # Empty /\ o.embedUp /\ o.storeMode = "up"

SearchReturned == op.name = "search_note" /\ outcome.kind = "return"

\* the candidate of the store's answer that became the returned document d
CandidateOf(d) == CHOOSE c \in Range(response) : c.id = d.id

PositionOf(d) == CHOOSE i \in 1..Len(response) : response[i].id = d.id

\* (1 + raw) / 2, times Unit
Rescaled(c) == (Unit + c["similarity"]) \div 2

\* C1: an add that returns has persisted exactly one new row holding the
\* content, the embedding and the returned metadata under the returned id
\* and has changed no other row; an add that fails leaves every table as
\* it was.
C1_AddAllOrNothing ==
    [][op'.name = "add_note" =>
        IF outcome'.kind = "return"
        THEN \E t \in TableNames : \E r \in tables'[t] \ tables[t] :
                /\ tables' = [tables EXCEPT ![t] = @ \cup {r}]
                /\ r.id = outcome'.value.id
                /\ r.content = op'.content
                /\ r.metadata = outcome'.value.metadata
                /\ r["embedding"].val = op'.content
        ELSE tables' = tables]_vars

C1_Witness ==
    /\ op.name = "add_note" /\ op.content # Empty /\ ~op.embedUp
    /\ outcome = Raise("EmbeddingUnavailable")
    /\ tables[documentsTable] # {}

\* C2: once delete(id) has returned, no search returns a document with that
\* id, and a further delete(id) returns false.
C2_DeletedStaysDeleted ==
    [][/\ (op'.name = "search_note" /\ outcome'.kind = "return") =>
            \A i \in 1..Len(outcome'.value) : Str(outcome'.value[i].id) \notin deleted'
       /\ (op'.name = "delete_note" /\ outcome'.kind = "return"
             /\ NoteIdStr(op'.note_id) \in deleted) =>
            outcome'.value = FALSE]_vars

C2_Witness ==
    /\ SearchReturned
    /\ Len(outcome.value) > 0
    /\ \E r \in Pool(documentsTable) : Str(r.id) \in deleted

\* C3: add(content) with the provider and the store up, followed at once by
\* a search for the same text with a limit covering the whole store,
\* returns the added document first, with a similarity in [-1, 1].
C3_AddThenSearchTop ==
    [][(/\ HealthyAdd(op)
        /\ op'.name = "search_note" /\ op'.query = op.content
        /\ op'.embedUp /\ op'.storeUp
        /\ op'.limit >= Cardinality(AllRows(tables))) =>
          /\ outcome.kind = "return"
          /\ outcome'.kind = "return"
          /\ Len(outcome'.value) > 0
          /\ outcome'.value[1].id = outcome.value.id
          /\ "similarity" \in DOMAIN outcome'.value[1]
          /\ outcome'.value[1]["similarity"] \in (0 - Unit)..Unit]_vars

\* C4: a search with an empty query and an add with empty content fail with
\* a validation error before any external call, and leave the store as it
\* was.
C4_FailFastValidation ==
    [][((op'.name = "search_note" /\ op'.query = Empty)
          \/ (op'.name = "add_note" /\ op'.content = Empty)) =>
          /\ calls' = <<>>
          /\ outcome' = Raise("ValidationError")
          /\ StoreUnchanged]_vars

\* C5: what search returns is the store's candidates reordered: the same
\* rows, by rescaled similarity descending, equal similarities in the order
\* of the store's answer.
C5_SortedStablePermutation ==
    SearchReturned =>
        LET out == outcome.value
        IN  /\ Len(out) = Len(response)
            /\ \A c \in Range(response) :
                  \E i \in 1..Len(out) : out[i].id = c.id /\ out[i].content = c.content
            /\ \A i, j \in 1..Len(out) : i < j =>
                  /\ Rescaled(CandidateOf(out[i])) >= Rescaled(CandidateOf(out[j]))
                  /\ Rescaled(CandidateOf(out[i])) = Rescaled(CandidateOf(out[j]))
                       => PositionOf(out[i]) < PositionOf(out[j])

C5_Witness ==
    /\ SearchReturned
    /\ Len(response) = 3
    /\ response[1]["similarity"] = response[2]["similarity"]
    /\ response[2]["similarity"] < response[3]["similarity"]

\* C6: every document search returns carries similarity
\* 1 - ((1 - raw_similarity) / 2), a value in [-1, 1].
C6_ReturnedSimilarity ==
    SearchReturned =>
        \A i \in 1..Len(outcome.value) :
            LET d == outcome.value[i]
            IN  /\ "similarity" \in DOMAIN d
                /\ d["similarity"] = Unit - ((Unit - CandidateOf(d)["similarity"]) \div 2)
                /\ d["similarity"] \in (0 - Unit)..Unit

\* what CPython makes of each serialized embedding of the corpus
ExpectedEmbedding(c) ==
    IF "embedding" \notin DOMAIN c THEN None
    ELSE LET e == c["embedding"]
         IN  IF e.type = "list" THEN e
             ELSE IF e.type = "null" THEN None
             ELSE IF e.val = EmbGood THEN [type |-> "list", val |-> <<100, 200, 300>>]
             ELSE IF e.val = EmbTruncated THEN [type |-> "list", val |-> <<100, 200>>]
             ELSE IF e.val = EmbSpaced THEN [type |-> "list", val |-> <<0 - 1500, 2000>>]
             ELSE None

Unparseable(c) ==
    /\ "embedding" \in DOMAIN c
    /\ c["embedding"].type = "str"
    /\ c["embedding"].val \in {EmbNotVector, EmbEmptyTok, EmbBlank}

\* C7: whenever the store answers, search returns every candidate, with a
\* null embedding on the rows whose string cannot be parsed and the parsed
\* floats on the others ("[0.1,0.2,0.3]" gives 0.1, 0.2, 0.3; "not-a-vector"
\* gives null).
C7_MalformedEmbeddingNeverAborts ==
    (op.name = "search_note" /\ StoreCall(TRUE) \in Range(calls)) =>
        /\ outcome.kind = "return"
        /\ Len(outcome.value) = Len(response)
        /\ \A c \in Range(response) :
              \E i \in 1..Len(outcome.value) :
                  /\ outcome.value[i].id = c.id
                  /\ Unparseable(c) => outcome.value[i].embedding = None
                  /\ ~Unparseable(c) => outcome.value[i].embedding = ExpectedEmbedding(c)

C7_Witness ==
    /\ SearchReturned
    /\ \E c \in Range(response) : Unparseable(c)
    /\ \E c \in Range(response) :
          "embedding" \in DOMAIN c /\ c["embedding"].type = "str" /\ ~Unparseable(c)

\* C8: an add with the provider and the store up returns and persists the
\* defaults overridden key by key by the caller's map: the caller's value
\* for every key the caller gives, the synthesized default for the others,
\* and exactly the defaults when no metadata is given.
C8_MetadataMerge ==
    HealthyAdd(op) =>
        /\ outcome.kind = "return"
        /\ LET m       == outcome.value.metadata
               given   == IF op.metadata.given THEN op.metadata.map ELSE <<>>
               default == [source |-> "from_chat", blobType |-> "text",
                           content_length |-> Len(op.content),
                           file_hash |-> Sha256Hex(op.content),
                           file_id |-> op.uuid]
           IN  /\ \A k \in DOMAIN given : k \in DOMAIN m /\ m[k] = given[k]
               /\ \A k \in DOMAIN default \ DOMAIN given :
                     k \in DOMAIN m /\ m[k] = default[k]
               /\ \E r \in AllRows(tables) :
                     r.id = outcome.value.id /\ r.metadata = m

\* C9: search and add call the provider at most once and then the store at
\* most once, delete calls the store at most once; a failed call is the
\* last call of its operation, and the operation raises that call's error.
C9_NoRetryProtocol ==
    op.name \in {"search_note", "add_note", "delete_note"} =>
        /\ Len(calls) <= (IF op.name = "delete_note" THEN 1 ELSE 2)
        /\ \A i \in 1..Len(calls) :
              /\ calls[i].service =
                    (IF op.name # "delete_note" /\ i = 1 THEN "embedding" ELSE "store")
              /\ ~calls[i].ok =>
                    /\ i = Len(calls)
                    /\ outcome = Raise(IF calls[i].service = "embedding"
                                       THEN "EmbeddingUnavailable"
                                       ELSE "StoreUnavailable")

C9_Witness ==
    /\ op.name = "search_note" /\ op.query # Empty /\ op.storeUp
    /\ calls = <<EmbedCall(FALSE)>>
    /\ outcome = Raise("EmbeddingUnavailable")

\* C10: the row an add creates lies in the collection delete works on, so
\* that delete(id) of the returned id finds it; a delete removes the rows
\* with the given id and no other, returns true exactly when it removed
\* one, and returns false without raising when none matches.
C10_AddDeleteSameCollection ==
    [][/\ HealthyAdd(op') =>
            /\ outcome'.kind = "return"
            /\ \E r \in tables'[documentsTable] \ tables[documentsTable] :
                  r.id = outcome'.value.id
       /\ (op'.name = "delete_note" /\ op'.storeUp) =>
            /\ outcome'.kind = "return"
            /\ outcome'.value = (tables' # tables)
            /\ \A t \in TableNames : tables'[t] \subseteq tables[t]
            /\ \A t \in TableNames : \A r \in tables[t] \ tables'[t] :
                  Str(r.id) = NoteIdStr(op'.note_id)]_vars

====
